---- MODULE Spec2Model ----
(***************************************************************************)
(* Model of cmd2/table_creator.py: the word wrapping of a table cell       *)
(* (TableCreator._wrap_text, its inner add_word / is_last_word and         *)
(* TableCreator._wrap_long_word) and the row generation built on it.       *)
(*                                                                         *)
(* A Python str is a sequence of characters.  Each character is one        *)
(* element of TextChars; an ANSI style sequence, which the code always     *)
(* handles as a unit (styles[char_index], skipped by its whole length), is *)
(* the single element STYLE.  Indexes are 0-based as in the source, so     *)
(* data_line[char_index] is written At(data_line, char_index).             *)
(***************************************************************************)
EXTENDS Integers, Sequences, FiniteSets, TLC

\* ------------------------------------------------------------------ bounds
MaxTextLen == 4          \* longest text that is wrapped
MaxWidth == 3            \* max_width ranges over 1..MaxWidth
MaxLines == 2            \* finite max_lines range over 1..MaxLines

\* --------------------------------------------------------------- constants
INFINITY == 1000000      \* constants.INFINITY (float('inf')): above every line count
TAB_WIDTH == 4           \* TableCreator.__init__: tab_width defaults to 4

SPACE == " "
EMPTY == << >>
NEWLINE == "\n"
TAB == "\t"
HORIZONTAL_ELLIPSIS == "..."     \* constants.HORIZONTAL_ELLIPSIS, one character
STYLE == "<style>"               \* one whole ANSI style sequence
RESET_ALL == "<reset>"           \* the style sequence ansi.RESET_ALL
WIDE == "W"                      \* a character of display width 2, such as an East Asian one
EXTRA == << "E", "X", "T", "R", "A" >>

\* The characters a text to wrap is made of (tabs are replaced before wrapping).
TextChars == {"a", "b", SPACE, NEWLINE, WIDE, STYLE}

At(s, i) == s[i + 1]
From(s, i) == SubSeq(s, i + 1, Len(s))

\* ---------------------------------------------------------- cmd2.ansi, wcwidth
\* wcwidth(): -1 for a control character, 2 for a wide one, 1 otherwise.
wcwidth(c) ==
    IF c \in {NEWLINE, TAB} THEN -1
    ELSE IF c = WIDE THEN 2
    ELSE 1

IsStyle(c) == c \in {STYLE, RESET_ALL}

\* ansi.strip_style(): the text without its style sequences.
strip_style(s) == SelectSeq(s, LAMBDA c : ~IsStyle(c))

RECURSIVE SumWidths(_)
SumWidths(s) == IF s = << >> THEN 0 ELSE wcwidth(Head(s)) + SumWidths(Tail(s))

\* ansi.style_aware_wcswidth(): display width of the text, style sequences
\* counting zero; -1 when the text holds an unprintable character.
style_aware_wcswidth(s) ==
    LET t == strip_style(s)
    IN  IF \E i \in 1..Len(t) : wcwidth(t[i]) = -1 THEN -1 ELSE SumWidths(t)

\* str.splitlines() for the line break "\n": a trailing line break opens no line.
RECURSIVE SplitFrom(_, _)
SplitFrom(s, cur) ==
    IF s = << >> THEN (IF cur = << >> THEN << >> ELSE << cur >>)
    ELSE IF Head(s) = NEWLINE THEN << cur >> \o SplitFrom(Tail(s), << >>)
    ELSE SplitFrom(Tail(s), Append(cur, Head(s)))

splitlines(s) == SplitFrom(s, << >>)

\* ------------------------------------------------------------- cmd2.utils
\* utils.truncate_line() raises ValueError for max_width < 1 or unprintable text.
truncate_line_raises(line, width) ==
    width < 1 \/ style_aware_wcswidth(line) = -1

\* The loop of utils.truncate_line(): characters are copied until the next one
\* would reach max_width; that one becomes the ellipsis, and the style sequences
\* of the rest of the line follow it.
RECURSIVE TruncateLoop(_, _, _, _)
TruncateLoop(line, index, total_width, width) ==
    IF index >= Len(line) THEN << >>
    ELSE IF IsStyle(At(line, index))
    THEN << At(line, index) >> \o TruncateLoop(line, index + 1, total_width, width)
    ELSE IF wcwidth(At(line, index)) + total_width >= width
    THEN << HORIZONTAL_ELLIPSIS >> \o SelectSeq(From(line, index + 1), IsStyle)
    ELSE << At(line, index) >>
         \o TruncateLoop(line, index + 1, total_width + wcwidth(At(line, index)), width)

truncate_line(line, width) ==
    IF style_aware_wcswidth(line) <= width THEN line
    ELSE TruncateLoop(line, 0, 0, width)

\* ------------------------------------------- TableCreator._wrap_long_word
\* max_lines - total_lines + 1, INFINITY staying INFINITY.
LinesLeft(max_lines, total_lines) ==
    IF max_lines = INFINITY THEN INFINITY ELSE max_lines - total_lines + 1

\* The remaining word handed to truncate_line on the last line: made too wide
\* when it is not the last word but would exactly fill the line.
LongWordRemainder(word, char_index, max_width, is_last) ==
    IF ~is_last /\ style_aware_wcswidth(From(word, char_index)) = max_width
    THEN From(word, char_index) \o EXTRA
    ELSE From(word, char_index)

\* A character wider than max_width is replaced by the ellipsis.
\* Mutant of CharTooWide: a character as wide as the line is replaced too.
CharTooWide_OrEqual(c, max_width) == wcwidth(c) >= max_width

\* line 133
CharTooWide(c, max_width) == wcwidth(c) > max_width

LongWordChar(c, max_width) ==
    IF CharTooWide(c, max_width) THEN HORIZONTAL_ELLIPSIS ELSE c

\* Mutant of CharOverflows: the line is taken to hold one column more.
CharOverflows_OneMore(width, cur_char_width, max_width) ==
    width + cur_char_width > max_width + 1

\* line 139: adding this character would exceed max_width.
CharOverflows(width, cur_char_width, max_width) == width + cur_char_width > max_width

\* The while loop of _wrap_long_word, one iteration per unfolding.  The result
\* is (wrapped text, lines used, display width of last line, truncate_line raised).
RECURSIVE LongWordLoop(_, _, _, _, _, _, _, _)
LongWordLoop(word, max_width, max_lines, is_last, char_index, buf, lines, width) ==
    IF char_index >= Len(word)
    THEN [wrapped |-> buf, lines_used |-> lines, cur_line_width |-> width, raised |-> FALSE]
    ELSE IF lines = max_lines
    THEN LET remaining_word == LongWordRemainder(word, char_index, max_width, is_last)
             truncated_line == truncate_line(remaining_word, max_width)
         IN  IF truncate_line_raises(remaining_word, max_width)
             THEN [wrapped |-> buf, lines_used |-> lines, cur_line_width |-> width,
                   raised |-> TRUE]
             ELSE [wrapped |-> buf \o truncated_line, lines_used |-> lines,
                   cur_line_width |-> style_aware_wcswidth(truncated_line),
                   raised |-> FALSE]
    ELSE IF IsStyle(At(word, char_index))
    THEN LongWordLoop(word, max_width, max_lines, is_last, char_index + 1,
                      Append(buf, At(word, char_index)), lines, width)
    ELSE LET cur_char == LongWordChar(At(word, char_index), max_width)
             cur_char_width == wcwidth(cur_char)
         IN  IF CharOverflows(width, cur_char_width, max_width)
             THEN IF lines < max_lines
                  THEN LongWordLoop(word, max_width, max_lines, is_last, char_index,
                                    Append(buf, NEWLINE), lines + 1, 0)
                  ELSE [wrapped |-> Append(buf, HORIZONTAL_ELLIPSIS), lines_used |-> lines,
                        cur_line_width |-> width + wcwidth(HORIZONTAL_ELLIPSIS),
                        raised |-> FALSE]
             ELSE LongWordLoop(word, max_width, max_lines, is_last, char_index + 1,
                               Append(buf, cur_char), lines, width + cur_char_width)

wrap_long_word(word, max_width, max_lines, is_last) ==
    LongWordLoop(word, max_width, max_lines, is_last, 0, << >>, 1, 0)

\* ----------------------------------------------- TableCreator._wrap_text
\* The local variables of one _wrap_text call are a record f ("frame") with
\* the fields max_width, max_lines, data_str_lines, data_line_index,
\* char_index, cur_word_buf, wrapped_buf, total_lines, cur_line_width, pc
\* and raised.  pc is the position in the code: "for" (line 253), "while"
\* (line 269), "endline" (line 303), "return" (line 314), "raised" (an
\* exception left the function).

data_line(f) == f.data_str_lines[f.data_line_index + 1]

\* is_last_word()
is_last_word(f) ==
    /\ f.data_line_index = Len(f.data_str_lines) - 1
    /\ f.char_index = Len(data_line(f)) - 1

\* Mutant of room_to_add: the line budget is not consulted.
room_to_add_Always(f) == TRUE

\* add_word(): may the long word start on a line of its own?
room_to_add(f) == ~(f.cur_line_width > 0 /\ ~(f.total_lines < f.max_lines))


\* Mutant of LineHasText: the long word is written where the line stands.
LineHasText_Never(f) == FALSE

\* add_word(), line 192: the current line already has text.
LineHasText(f) == f.cur_line_width > 0

\* add_word(), lines 189-209: the word is wider than a line and is wrapped.
AddLongWord(f, word_to_add) ==
    LET fresh == LineHasText(f)
        lines1 == IF fresh THEN f.total_lines + 1 ELSE f.total_lines
        buf1 == IF fresh THEN Append(f.wrapped_buf, NEWLINE) ELSE f.wrapped_buf
        r == wrap_long_word(word_to_add, f.max_width,
                            LinesLeft(f.max_lines, lines1), is_last_word(f))
    IN  [f EXCEPT !.wrapped_buf = buf1 \o r.wrapped,
                  !.total_lines = lines1 + r.lines_used - 1,
                  !.cur_line_width = r.cur_line_width,
                  !.raised = r.raised]

\* add_word(), lines 217-222: a space goes before a word that is not first on
\* its line when the word fits or no line is left; otherwise a new line starts.
SpaceBefore(f, word_width) ==
    /\ f.cur_line_width > 0 /\ word_width > 0
    /\ (word_width < f.max_width - f.cur_line_width \/ f.total_lines = f.max_lines)

StartNewLine(f, word_width) ==
    /\ f.cur_line_width > 0 /\ word_width > 0
    /\ ~(word_width < f.max_width - f.cur_line_width \/ f.total_lines = f.max_lines)

\* add_word(), line 236: the word fills the final line and more text follows.
ForceEllipsis(f, word_width, remaining_width) ==
    ~is_last_word(f) /\ f.total_lines = f.max_lines /\ word_width = remaining_width

\* add_word(), lines 212-240: the word is added without being wrapped.
AddShortWord(f, word_to_add) ==
    LET width0 == style_aware_wcswidth(word_to_add)
        remaining_width == f.max_width - f.cur_line_width
        spaced == SpaceBefore(f, width0)
        word1 == IF spaced THEN << SPACE >> \o word_to_add ELSE word_to_add
        width1 == IF spaced THEN width0 + 1 ELSE width0
    IN  IF StartNewLine(f, width0)
        THEN [f EXCEPT !.wrapped_buf = Append(f.wrapped_buf, NEWLINE) \o word1,
                       !.total_lines = f.total_lines + 1,
                       !.cur_line_width = width1]
        ELSE IF width1 > remaining_width
        THEN IF truncate_line_raises(word1, remaining_width)
             THEN [f EXCEPT !.raised = TRUE]
             ELSE [f EXCEPT !.wrapped_buf =
                                f.wrapped_buf \o truncate_line(word1, remaining_width),
                            !.cur_line_width = f.cur_line_width + remaining_width]
        ELSE IF ForceEllipsis(f, width1, remaining_width)
        THEN IF truncate_line_raises(word1 \o EXTRA, remaining_width)
             THEN [f EXCEPT !.raised = TRUE]
             ELSE [f EXCEPT !.wrapped_buf =
                                f.wrapped_buf \o truncate_line(word1 \o EXTRA, remaining_width),
                            !.cur_line_width = f.cur_line_width + width1]
        ELSE [f EXCEPT !.wrapped_buf = f.wrapped_buf \o word1,
                       !.cur_line_width = f.cur_line_width + width1]

\* add_word()
add_word(f, word_to_add) ==
    IF style_aware_wcswidth(word_to_add) > f.max_width /\ room_to_add(f)
    THEN AddLongWord(f, word_to_add)
    ELSE AddShortWord(f, word_to_add)

\* _wrap_text(), lines 246-252: the frame when the for loop is first reached.
\* data_line_index, char_index, cur_word_buf and cur_line_width are not yet
\* bound in the code; they are read only after line 253 has set them.
InitFrame(text, max_width, max_lines) ==
    [max_width |-> max_width, max_lines |-> max_lines,
     data_str_lines |-> splitlines(text), data_line_index |-> -1,
     char_index |-> 0, cur_word_buf |-> << >>, wrapped_buf |-> << >>,
     total_lines |-> 0, cur_line_width |-> 0, pc |-> "for", raised |-> FALSE]

\* Where an add_word() call leaves the frame: at `to`, or out by an exception.
AfterAddWord(f, to) == [f EXCEPT !.pc = IF f.raised THEN "raised" ELSE to]

\* line 253: another input line?
MoreLines(f) == f.data_line_index + 1 < Len(f.data_str_lines)

\* lines 253-268: the next input line is started.
NextLineStep(f) ==
    [f EXCEPT !.data_line_index = f.data_line_index + 1,
              !.total_lines = f.total_lines + 1,
              !.wrapped_buf = IF f.data_line_index + 1 > 0
                              THEN Append(f.wrapped_buf, NEWLINE) ELSE f.wrapped_buf,
              !.cur_line_width = 0,
              !.cur_word_buf = << >>,
              !.char_index = 0,
              !.pc = "while"]

\* line 253, no line left: the for loop ends.
NoLineStep(f) == [f EXCEPT !.pc = "return"]

\* line 269
InLine(f) == f.char_index < Len(data_line(f))

\* Mutant of LineBudgetFull: the loop reads on when the final line is full.
LineBudgetFull_Never(f) == f.total_lines > f.max_lines

\* line 270: the final permitted line is full.
LineBudgetFull(f) == f.total_lines = f.max_lines /\ f.cur_line_width = f.max_width

\* lines 270-271; also the while condition failing.
LeaveWhileStep(f) == [f EXCEPT !.pc = "endline"]

cur_char(f) == At(data_line(f), f.char_index)

\* lines 274-277: a style sequence joins the current word.
StyleStep(f) ==
    [f EXCEPT !.cur_word_buf = Append(f.cur_word_buf, cur_char(f)),
              !.char_index = f.char_index + 1]

\* lines 279-287: a space ends the word being built.
SpaceEndsWordStep(f) ==
    LET g == add_word([f EXCEPT !.char_index = f.char_index + 1], f.cur_word_buf)
    IN  AfterAddWord([g EXCEPT !.cur_word_buf = << >>], "while")

\* Mutant of SpaceNeedsNewLine: a space is allowed one column past the line.
SpaceNeedsNewLine_OneMore(f) == wcwidth(SPACE) + f.cur_line_width > f.max_width + 1

\* line 292: does the space start a new line?
SpaceNeedsNewLine(f) == wcwidth(SPACE) + f.cur_line_width > f.max_width

\* lines 289-298: a space with no word before it is written to the output.
SpaceStep(f) ==
    IF SpaceNeedsNewLine(f)
    THEN [f EXCEPT !.char_index = f.char_index + 1,
                   !.wrapped_buf = f.wrapped_buf \o << NEWLINE, SPACE >>,
                   !.total_lines = f.total_lines + 1,
                   !.cur_line_width = wcwidth(SPACE)]
    ELSE [f EXCEPT !.char_index = f.char_index + 1,
                   !.wrapped_buf = Append(f.wrapped_buf, SPACE),
                   !.cur_line_width = f.cur_line_width + wcwidth(SPACE)]

\* lines 299-301: any other character joins the current word.
CharStep(f) ==
    [f EXCEPT !.cur_word_buf = Append(f.cur_word_buf, cur_char(f)),
              !.char_index = f.char_index + 1]

\* lines 308-312: the line budget is used up: the ellipsis is added when
\* input lines remain and the last line has room.
EllipsisAtStop(f) ==
    f.data_line_index < Len(f.data_str_lines) - 1 /\ f.cur_line_width < f.max_width

StopCheck(f) ==
    IF f.raised THEN [f EXCEPT !.pc = "raised"]
    ELSE IF f.total_lines = f.max_lines
    THEN [f EXCEPT !.wrapped_buf = IF EllipsisAtStop(f)
                                   THEN Append(f.wrapped_buf, HORIZONTAL_ELLIPSIS)
                                   ELSE f.wrapped_buf,
                   !.pc = "return"]
    ELSE [f EXCEPT !.pc = "for"]

\* lines 303-312: the final word of the line is added, then the stop check.
EndLineStep(f) ==
    IF Len(f.cur_word_buf) > 0
    THEN StopCheck(add_word(f, f.cur_word_buf))
    ELSE StopCheck(f)

\* One step of _wrap_text from frame f.
WrapStep(f) ==
    IF f.pc = "for" THEN (IF MoreLines(f) THEN NextLineStep(f) ELSE NoLineStep(f))
    ELSE IF f.pc = "while"
    THEN IF ~InLine(f) \/ LineBudgetFull(f) THEN LeaveWhileStep(f)
         ELSE IF IsStyle(cur_char(f)) THEN StyleStep(f)
         ELSE IF cur_char(f) = SPACE
         THEN (IF Len(f.cur_word_buf) > 0 THEN SpaceEndsWordStep(f) ELSE SpaceStep(f))
         ELSE CharStep(f)
    ELSE IF f.pc = "endline" THEN EndLineStep(f)
    ELSE f

RECURSIVE WrapRun(_)
WrapRun(f) == IF f.pc \in {"return", "raised"} THEN f ELSE WrapRun(WrapStep(f))

\* TableCreator._wrap_text(text, max_width, max_lines)
wrap_text(text, max_width, max_lines) ==
    WrapRun(InitFrame(text, max_width, max_lines)).wrapped_buf


\* ------------------------------------------------- cmd2.utils.align_text
RECURSIVE Repeat(_, _)
Repeat(s, n) == IF n <= 0 THEN << >> ELSE s \o Repeat(s, n - 1)

\* str.replace('\t', SPACE * n)
RECURSIVE ReplaceTabs(_, _)
ReplaceTabs(s, n) ==
    IF s = << >> THEN << >>
    ELSE (IF Head(s) = TAB THEN Repeat(<< SPACE >>, n) ELSE << Head(s) >>)
         \o ReplaceTabs(Tail(s), n)

\* Fill of display width n: whole fill characters, then spaces for the rest.
FillOf(fill_char, n) ==
    LET whole == Repeat(fill_char, n \div style_aware_wcswidth(fill_char))
    IN  whole \o Repeat(<< SPACE >>, n - style_aware_wcswidth(whole))

\* With styles in play the fill is fenced by RESET_ALL.
FenceFill(fill, styled) ==
    IF ~styled THEN fill
    ELSE (IF fill # << >> THEN << RESET_ALL >> \o fill ELSE fill) \o << RESET_ALL >>

\* One line of align_text(): the line padded to width; aggregate_styles are the
\* style sequences of the lines before it.
AlignLine(line, fill_char, width, alignment, aggregate_styles) ==
    LET line_width == style_aware_wcswidth(line)
        total_fill_width == IF line_width >= width THEN 0 ELSE width - line_width
        left_fill_width == IF alignment = "LEFT" THEN 0
                           ELSE IF alignment = "CENTER" THEN total_fill_width \div 2
                           ELSE total_fill_width
        right_fill_width == total_fill_width - left_fill_width
        styled == \/ SelectSeq(fill_char, IsStyle) # << >>
                  \/ aggregate_styles # << >>
                  \/ SelectSeq(line, IsStyle) # << >>
    IN  FenceFill(FillOf(fill_char, left_fill_width), styled)
        \o aggregate_styles \o line
        \o FenceFill(FillOf(fill_char, right_fill_width), styled)

RECURSIVE AlignLines(_, _, _, _, _, _)
AlignLines(lines, index, fill_char, width, alignment, aggregate_styles) ==
    IF index >= Len(lines) THEN << >>
    ELSE (IF index > 0 THEN << NEWLINE >> ELSE << >>)
         \o AlignLine(At(lines, index), fill_char, width, alignment, aggregate_styles)
         \o AlignLines(lines, index + 1, fill_char, width, alignment,
                       aggregate_styles \o SelectSeq(At(lines, index), IsStyle))

\* utils.align_text(text, fill_char=, width=, alignment=)
align_text(t, fill_char, width, alignment) ==
    AlignLines(IF t # << >> THEN splitlines(t) ELSE << << >> >>, 0,
               fill_char, width, alignment, << >>)

\* ------------------------------------------------------ Column.__init__
Max(S) == CHOOSE m \in S : \A n \in S : n <= m

\* width: Optional[int] = None
NoWidth == [given |-> FALSE]
Width(n) == [given |-> TRUE, value |-> n]

\* Mutant of HeaderWidth: only the first line of the header is measured.
HeaderWidth_FirstLine(header) ==
    IF splitlines(header) = << >> THEN 1
    ELSE Max({style_aware_wcswidth(splitlines(header)[1]), 1})

\* lines 54-56: the widest line of the header, or 1.
HeaderWidth(header) ==
    LET line_widths == {style_aware_wcswidth(splitlines(header)[i]) :
                            i \in 1..Len(splitlines(header))} \cup {1}
    IN  Max(line_widths)

\* line 57
WidthInvalid(width) == width.given /\ width.value < 1

\* Mutant of MaxDataLinesInvalid: only negative limits are refused.
MaxDataLinesInvalid_Negative(max_data_lines) == max_data_lines < 0

\* line 67
MaxDataLinesInvalid(max_data_lines) == max_data_lines < 1

\* ------------------------------------- TableCreator._generate_cell_lines
\* lines 327 and 336-341
HorizAlignment(is_header, col) ==
    IF is_header THEN col.header_horiz_align ELSE col.data_horiz_align

\* Mutant of WrapCell: the text is wrapped one column wider than the column.
WrapCell_Wider(data_str, col) == wrap_text(data_str, col.width + 1, col.max_data_lines)

\* line 333: the text of a cell wrapped within its column.
WrapCell(data_str, col) == wrap_text(data_str, col.width, col.max_data_lines)

\* _generate_cell_lines(): (lines of the cell, display width of the cell)
generate_cell_lines(data, is_header, col, fill_char, tab_width) ==
    LET data_str == ReplaceTabs(data, tab_width)
        wrapped_text == WrapCell(data_str, col)
        aligned_text == align_text(wrapped_text, fill_char, col.width,
                                   HorizAlignment(is_header, col))
        lines == splitlines(aligned_text)
    IN  [lines |-> lines,
         width |-> Max({style_aware_wcswidth(lines[i]) : i \in 1..Len(lines)})]

\* ------------------------------------------- TableCreator._generate_row
\* Mutant of ArityMismatch: only too few data are noticed.
ArityMismatch_TooFewOnly(table_cols, row_data) == Len(table_cols) > Len(row_data)

\* line 375
ArityMismatch(table_cols, row_data) == Len(table_cols) # Len(row_data)

\* line 385
FillCharInvalid(fill) == Len(strip_style(fill)) # 1

\* Mutant of Unprintable: the decorations are not looked at.
Unprintable_Never(val) == FALSE

\* lines 389-393
Unprintable(val) == style_aware_wcswidth(val) = -1

\* lines 412 and 421-429: (filler lines above, filler lines below)
VertAlignment(is_header, col) ==
    IF is_header THEN col.header_vert_align ELSE col.data_vert_align

\* Mutant of FillerLines: MIDDLE puts the odd line above the text.
FillerLines_OddLineAbove(vert_align, line_diff) ==
    IF vert_align = "TOP" THEN [to_top |-> 0, to_bottom |-> line_diff]
    ELSE IF vert_align = "MIDDLE"
    THEN [to_top |-> line_diff - line_diff \div 2, to_bottom |-> line_diff \div 2]
    ELSE [to_top |-> line_diff, to_bottom |-> 0]

FillerLines(vert_align, line_diff) ==
    IF vert_align = "TOP" THEN [to_top |-> 0, to_bottom |-> line_diff]
    ELSE IF vert_align = "MIDDLE"
    THEN [to_top |-> line_diff \div 2, to_bottom |-> line_diff - line_diff \div 2]
    ELSE [to_top |-> line_diff, to_bottom |-> 0]

\* lines 410-434: one cell brought to the height of the row.
VerticallyAligned(cell, col, is_header, fill, row_lines) ==
    LET line_diff == row_lines - Len(cell.lines)
        padding_line == align_text(EMPTY, fill, cell.width, "LEFT")
        filler == FillerLines(VertAlignment(is_header, col), line_diff)
    IN  IF line_diff = 0 THEN cell
        ELSE [cell EXCEPT !.lines = Repeat(<< padding_line >>, filler.to_top)
                                    \o cell.lines
                                    \o Repeat(<< padding_line >>, filler.to_bottom)]

\* Mutant of InterCellFollows: inter_cell is written after every cell.
InterCellFollows_Always(cell_index, n_cols) == cell_index <= n_cols - 1

\* line 444
InterCellFollows(cell_index, n_cols) == cell_index < n_cols - 1

\* lines 438-447: line line_index of the row, from cell cell_index on.
RECURSIVE RowLineFrom(_, _, _, _, _, _, _)
RowLineFrom(row_cells, n_cols, line_index, cell_index, pre, inter, post) ==
    IF cell_index >= Len(row_cells) THEN << >>
    ELSE (IF cell_index = 0 THEN pre ELSE << >>)
         \o At(At(row_cells, cell_index).lines, line_index)
         \o (IF InterCellFollows(cell_index, n_cols) THEN inter ELSE << >>)
         \o (IF cell_index = n_cols - 1 THEN post ELSE << >>)
         \o RowLineFrom(row_cells, n_cols, line_index, cell_index + 1, pre, inter, post)

\* lines 437-451: the lines of the row from line_index on, joined by newlines.
RECURSIVE RowFrom(_, _, _, _, _, _, _)
RowFrom(row_cells, n_cols, row_lines, line_index, pre, inter, post) ==
    IF line_index >= row_lines THEN << >>
    ELSE RowLineFrom(row_cells, n_cols, line_index, 0, pre, inter, post)
         \o (IF line_index < row_lines - 1 THEN << NEWLINE >> ELSE << >>)
         \o RowFrom(row_cells, n_cols, row_lines, line_index + 1, pre, inter, post)

\* ------------------------------------------------------------------ state
VARIABLES
    text, max_width, max_lines,          \* the arguments of the _wrap_text call
    data_str_lines, data_line_index,     \* its local variables
    char_index, cur_word_buf, wrapped_buf,
    total_lines, cur_line_width,
    pc, raised,
    last_add,                            \* the most recent add_word() call
    cols, tab_width,                     \* the TableCreator
    column,                              \* the Column under construction
    args,                                \* the arguments of the render call
    fill_char, pre_line, inter_cell, post_line,   \* locals of _generate_row
    cells, row_buf,
    row_pc, error

wrap_vars == << text, max_width, max_lines, data_str_lines, data_line_index, char_index,
                cur_word_buf, wrapped_buf, total_lines, cur_line_width, pc, raised,
                last_add >>

table_vars == << cols, tab_width, column >>

row_vars == << args, fill_char, pre_line, inter_cell, post_line, cells, row_buf,
               row_pc, error >>

vars == << wrap_vars, table_vars, row_vars >>

\* No add_word() call yet / the call add_word(word) made in frame f.
NoAdd == [made |-> FALSE]
AddCall(f, word) == [made |-> TRUE, word |-> word, before |-> f, after |-> add_word(f, word)]

Frame ==
    [max_width |-> max_width, max_lines |-> max_lines,
     data_str_lines |-> data_str_lines, data_line_index |-> data_line_index,
     char_index |-> char_index, cur_word_buf |-> cur_word_buf,
     wrapped_buf |-> wrapped_buf, total_lines |-> total_lines,
     cur_line_width |-> cur_line_width, pc |-> pc, raised |-> raised]

Becomes(f) ==
    /\ data_str_lines' = f.data_str_lines
    /\ data_line_index' = f.data_line_index
    /\ char_index' = f.char_index
    /\ cur_word_buf' = f.cur_word_buf
    /\ wrapped_buf' = f.wrapped_buf
    /\ total_lines' = f.total_lines
    /\ cur_line_width' = f.cur_line_width
    /\ pc' = f.pc
    /\ raised' = f.raised
    /\ UNCHANGED << text, max_width, max_lines, table_vars, row_vars >>

\* ----------------------------------------------------------------- inputs
Texts == UNION {[1..n -> TextChars] : n \in 0..MaxTextLen}
Widths == 1..MaxWidth
LineLimits == (1..MaxLines) \cup {INFINITY}

\* Columns as Column.__init__ leaves them (width >= 1, max_data_lines >= 1).
ColumnA ==
    [header |-> << "a" >>, width |-> 1,
     header_horiz_align |-> "LEFT", header_vert_align |-> "BOTTOM",
     data_horiz_align |-> "LEFT", data_vert_align |-> "TOP",
     max_data_lines |-> INFINITY]

ColumnB ==
    [header |-> << "a", "b", NEWLINE, "a" >>, width |-> 2,
     header_horiz_align |-> "CENTER", header_vert_align |-> "MIDDLE",
     data_horiz_align |-> "CENTER", data_vert_align |-> "MIDDLE",
     max_data_lines |-> 1]

ColumnC ==
    [header |-> << STYLE, "b", SPACE, "a", "a" >>, width |-> 3,
     header_horiz_align |-> "RIGHT", header_vert_align |-> "TOP",
     data_horiz_align |-> "RIGHT", data_vert_align |-> "BOTTOM",
     max_data_lines |-> 2]

Columns == {ColumnA, ColumnB, ColumnC}

Tables == {<< c >> : c \in Columns} \cup {<< c, d >> : c, d \in Columns}

DataTexts ==
    { << WIDE >>,
      << "a", SPACE, "b", NEWLINE, "a" >>,
      << STYLE, "a", TAB, "b" >> }

DataLists ==
    {<< >>} \cup {<< x >> : x \in DataTexts}
    \cup {<< x, y >> : x, y \in DataTexts}
    \cup {<< x, y, x >> : x, y \in DataTexts}

FillChars ==
    { << SPACE >>, << TAB >>, << STYLE, "-" >>, << >>, << "-", "-" >>, << NEWLINE >> }
PreLines == { << >>, << "|", TAB >>, << NEWLINE >> }
InterCells == { << SPACE, SPACE >>, << "|", NEWLINE >> }
PostLines == { << >>, << "|" >>, << NEWLINE, "|" >> }

\* The arguments of Column(): headers, widths and line limits, valid or not.
Headers ==
    { << >>,
      << "a", "b", NEWLINE, "a" >>,
      << STYLE, WIDE, NEWLINE, "a", SPACE, "b" >> }
WidthArgs == {NoWidth} \cup {Width(n) : n \in 0..2}
MaxDataLinesArgs == {0, 1, INFINITY}

\* ------------------------------------------------------------------- Init
NoArgs == [made |-> FALSE]
NoColumn == [pc |-> "none"]

RowIdle ==
    /\ args = NoArgs
    /\ fill_char = << >> /\ pre_line = << >> /\ inter_cell = << >> /\ post_line = << >>
    /\ cells = << >> /\ row_buf = << >>
    /\ row_pc = "idle" /\ error = "none"

\* A _wrap_text call with its arguments, at the for loop (line 253).
WrapInit ==
    /\ text \in Texts
    /\ max_width \in Widths
    /\ max_lines \in LineLimits
    /\ data_str_lines = splitlines(text)
    /\ data_line_index = -1
    /\ char_index = 0
    /\ cur_word_buf = << >>
    /\ wrapped_buf = << >>
    /\ total_lines = 0
    /\ cur_line_width = 0
    /\ pc = "for"
    /\ raised = FALSE
    /\ last_add = NoAdd
    /\ cols = << >> /\ tab_width = TAB_WIDTH /\ column = NoColumn
    /\ RowIdle

WrapIdle ==
    /\ text = << >> /\ max_width = 1 /\ max_lines = INFINITY
    /\ data_str_lines = << >> /\ data_line_index = -1 /\ char_index = 0
    /\ cur_word_buf = << >> /\ wrapped_buf = << >>
    /\ total_lines = 0 /\ cur_line_width = 0
    /\ pc = "idle" /\ raised = FALSE /\ last_add = NoAdd

\* A TableCreator as TableCreator.__init__ leaves it.
TableInit ==
    /\ WrapIdle
    /\ cols \in Tables /\ tab_width = TAB_WIDTH /\ column = NoColumn
    /\ RowIdle

\* A Column() call with its arguments, at line 50 (self.header = header); the
\* alignments are left to their defaults.
ColumnInit ==
    /\ WrapIdle
    /\ cols = << >> /\ tab_width = TAB_WIDTH
    /\ \E header \in Headers, width \in WidthArgs, max_data_lines \in MaxDataLinesArgs :
           column = [pc |-> "width", header |-> header, width |-> width,
                     max_data_lines |-> max_data_lines,
                     self |-> [header |-> header], error |-> "none"]
    /\ RowIdle

Init == WrapInit \/ TableInit \/ ColumnInit

\* ---------------------------------------------------- _wrap_text, stepwise
NextLine ==
    /\ pc = "for" /\ MoreLines(Frame)
    /\ Becomes(NextLineStep(Frame))
    /\ UNCHANGED last_add

NoLine ==
    /\ pc = "for" /\ ~MoreLines(Frame)
    /\ Becomes(NoLineStep(Frame))
    /\ UNCHANGED last_add

WhileBreak ==
    /\ pc = "while" /\ InLine(Frame) /\ LineBudgetFull(Frame)
    /\ Becomes(LeaveWhileStep(Frame))
    /\ UNCHANGED last_add

WhileEnd ==
    /\ pc = "while" /\ ~InLine(Frame)
    /\ Becomes(LeaveWhileStep(Frame))
    /\ UNCHANGED last_add

ReadStyle ==
    /\ pc = "while" /\ InLine(Frame) /\ ~LineBudgetFull(Frame)
    /\ IsStyle(cur_char(Frame))
    /\ Becomes(StyleStep(Frame))
    /\ UNCHANGED last_add

ReadSpaceAfterWord ==
    /\ pc = "while" /\ InLine(Frame) /\ ~LineBudgetFull(Frame)
    /\ cur_char(Frame) = SPACE /\ Len(cur_word_buf) > 0
    /\ Becomes(SpaceEndsWordStep(Frame))
    /\ last_add' = AddCall([Frame EXCEPT !.char_index = char_index + 1], cur_word_buf)

ReadSpace ==
    /\ pc = "while" /\ InLine(Frame) /\ ~LineBudgetFull(Frame)
    /\ cur_char(Frame) = SPACE /\ Len(cur_word_buf) = 0
    /\ Becomes(SpaceStep(Frame))
    /\ UNCHANGED last_add

ReadChar ==
    /\ pc = "while" /\ InLine(Frame) /\ ~LineBudgetFull(Frame)
    /\ ~IsStyle(cur_char(Frame)) /\ cur_char(Frame) # SPACE
    /\ Becomes(CharStep(Frame))
    /\ UNCHANGED last_add

EndLine ==
    /\ pc = "endline"
    /\ Becomes(EndLineStep(Frame))
    /\ last_add' = IF Len(cur_word_buf) > 0 THEN AddCall(Frame, cur_word_buf) ELSE last_add

\* --------------------------------------------- _generate_row, stepwise
\* row_pc is the position in _generate_row: "arity" (line 375), "tabs" (379),
\* "fill" (385), "printable" (389), "cells" (401), "build" (437), "return"
\* (453), "raised" (an exception left the call); "idle" between calls.

Enter(data, is_header, fill, pre, inter, post) ==
    /\ args' = [made |-> TRUE, data |-> data, is_header |-> is_header,
                fill_char |-> fill, pre_line |-> pre, inter_cell |-> inter,
                post_line |-> post]
    /\ fill_char' = fill /\ pre_line' = pre /\ inter_cell' = inter /\ post_line' = post
    /\ cells' = << >> /\ row_buf' = << >> /\ error' = "none"
    /\ row_pc' = "arity"
    /\ UNCHANGED << wrap_vars, table_vars >>

\* generate_header_row(): the data are the headers of the columns.
GenerateHeaderRow ==
    /\ row_pc = "idle" /\ pc = "idle" /\ cols # << >>
    /\ \E fill \in FillChars, pre \in PreLines, inter \in InterCells, post \in PostLines :
           Enter([i \in 1..Len(cols) |-> cols[i].header], TRUE, fill, pre, inter, post)

\* generate_data_row()
GenerateDataRow ==
    /\ row_pc = "idle" /\ pc = "idle" /\ cols # << >>
    /\ \E data \in DataLists, fill \in FillChars, pre \in PreLines,
          inter \in InterCells, post \in PostLines :
           Enter(data, FALSE, fill, pre, inter, post)

Raise(exception) ==
    /\ row_pc' = "raised" /\ error' = exception
    /\ UNCHANGED << wrap_vars, table_vars, args, fill_char, pre_line, inter_cell,
                    post_line, cells, row_buf >>

Goto(position) ==
    /\ row_pc' = position
    /\ UNCHANGED << wrap_vars, table_vars, args, fill_char, pre_line, inter_cell,
                    post_line, cells, row_buf, error >>

\* lines 375-376
RejectArity == row_pc = "arity" /\ ArityMismatch(cols, args.data) /\ Raise("ValueError")

AcceptArity == row_pc = "arity" /\ ~ArityMismatch(cols, args.data) /\ Goto("tabs")

\* lines 379-382
ReplaceDecorationTabs ==
    /\ row_pc = "tabs"
    /\ fill_char' = ReplaceTabs(fill_char, 1)
    /\ pre_line' = ReplaceTabs(pre_line, tab_width)
    /\ inter_cell' = ReplaceTabs(inter_cell, tab_width)
    /\ post_line' = ReplaceTabs(post_line, tab_width)
    /\ row_pc' = "fill"
    /\ UNCHANGED << wrap_vars, table_vars, args, cells, row_buf, error >>

\* lines 385-386
RejectFillChar == row_pc = "fill" /\ FillCharInvalid(fill_char) /\ Raise("TypeError")

AcceptFillChar == row_pc = "fill" /\ ~FillCharInvalid(fill_char) /\ Goto("printable")

\* lines 389-393
AnyUnprintable ==
    \E val \in {fill_char, pre_line, inter_cell, post_line} : Unprintable(val)

RejectUnprintable == row_pc = "printable" /\ AnyUnprintable /\ Raise("ValueError")

AcceptPrintable == row_pc = "printable" /\ ~AnyUnprintable /\ Goto("cells")

\* lines 401-405: the cell of the next column.
GenerateCell ==
    /\ row_pc = "cells" /\ Len(cells) < Len(cols)
    /\ cells' = Append(cells,
                       generate_cell_lines(args.data[Len(cells) + 1], args.is_header,
                                           cols[Len(cells) + 1], fill_char, tab_width))
    /\ UNCHANGED << wrap_vars, table_vars, args, fill_char, pre_line, inter_cell,
                    post_line, row_buf, row_pc, error >>

\* line 405: the number of lines of the row.
RowLines(row_cells) == Max({0} \cup {Len(row_cells[i].lines) : i \in 1..Len(row_cells)})

\* lines 410-434: every cell is brought to the height of the row.
AlignCellsVertically ==
    /\ row_pc = "cells" /\ Len(cells) = Len(cols)
    /\ cells' = [i \in 1..Len(cells) |->
                    VerticallyAligned(cells[i], cols[i], args.is_header, fill_char,
                                      RowLines(cells))]
    /\ row_pc' = "build"
    /\ UNCHANGED << wrap_vars, table_vars, args, fill_char, pre_line, inter_cell,
                    post_line, row_buf, error >>

\* lines 437-453
BuildRow ==
    /\ row_pc = "build"
    /\ row_buf' = RowFrom(cells, Len(cols), RowLines(cells), 0,
                          pre_line, inter_cell, post_line)
    /\ row_pc' = "return"
    /\ UNCHANGED << wrap_vars, table_vars, args, fill_char, pre_line, inter_cell,
                    post_line, cells, error >>

\* Mutant of Leave: the call takes the last column off the table.
Leave_DropsColumn ==
    /\ row_pc \in {"return", "raised"}
    /\ args' = NoArgs
    /\ fill_char' = << >> /\ pre_line' = << >> /\ inter_cell' = << >> /\ post_line' = << >>
    /\ cells' = << >> /\ row_buf' = << >>
    /\ row_pc' = "idle" /\ error' = "none"
    /\ cols' = SubSeq(cols, 1, Len(cols) - 1)
    /\ UNCHANGED << wrap_vars, tab_width, column >>

\* The call is over; its locals are gone.
Leave ==
    /\ row_pc \in {"return", "raised"}
    /\ args' = NoArgs
    /\ fill_char' = << >> /\ pre_line' = << >> /\ inter_cell' = << >> /\ post_line' = << >>
    /\ cells' = << >> /\ row_buf' = << >>
    /\ row_pc' = "idle" /\ error' = "none"
    /\ UNCHANGED << wrap_vars, table_vars >>

\* ------------------------------------------- Column.__init__, stepwise
\* column.pc is the position in Column.__init__: "width" (line 52),
\* "max_data_lines" (line 67), "return" (after line 70), "raised".
ColumnBecomes(c) ==
    /\ column' = c
    /\ UNCHANGED << wrap_vars, cols, tab_width, row_vars >>

\* lines 62-65 follow the width: the alignments given (here the defaults).
WithWidth(self, width) ==
    [header |-> self.header, width |-> width,
     header_horiz_align |-> "LEFT", header_vert_align |-> "BOTTOM",
     data_horiz_align |-> "LEFT", data_vert_align |-> "TOP"]

WithMaxDataLines(self, max_data_lines) ==
    [header |-> self.header, width |-> self.width,
     header_horiz_align |-> self.header_horiz_align,
     header_vert_align |-> self.header_vert_align,
     data_horiz_align |-> self.data_horiz_align,
     data_vert_align |-> self.data_vert_align,
     max_data_lines |-> max_data_lines]

\* lines 52-56
ColumnDefaultWidth ==
    /\ column.pc = "width" /\ ~column.width.given
    /\ ColumnBecomes([column EXCEPT !.self = WithWidth(@, HeaderWidth(column.header)),
                                     !.pc = "max_data_lines"])

\* lines 57-58
ColumnRejectWidth ==
    /\ column.pc = "width" /\ column.width.given /\ WidthInvalid(column.width)
    /\ ColumnBecomes([column EXCEPT !.pc = "raised", !.error = "ValueError"])

\* lines 59-60
ColumnAcceptWidth ==
    /\ column.pc = "width" /\ column.width.given /\ ~WidthInvalid(column.width)
    /\ ColumnBecomes([column EXCEPT !.self = WithWidth(@, column.width.value),
                                     !.pc = "max_data_lines"])

\* lines 67-68
ColumnRejectMaxDataLines ==
    /\ column.pc = "max_data_lines" /\ MaxDataLinesInvalid(column.max_data_lines)
    /\ ColumnBecomes([column EXCEPT !.pc = "raised", !.error = "ValueError"])

\* line 70
ColumnAcceptMaxDataLines ==
    /\ column.pc = "max_data_lines" /\ ~MaxDataLinesInvalid(column.max_data_lines)
    /\ ColumnBecomes([column EXCEPT
                          !.self = WithMaxDataLines(@, column.max_data_lines),
                          !.pc = "return"])

\* TableCreator([column]): the table of the Column just made (lines 86-87).
NewTableCreator ==
    /\ column.pc = "return" /\ cols = << >>
    /\ cols' = << column.self >>
    /\ column' = NoColumn
    /\ UNCHANGED << wrap_vars, tab_width, row_vars >>

Next ==
    \/ NextLine
    \/ NoLine
    \/ WhileBreak
    \/ WhileEnd
    \/ ReadStyle
    \/ ReadSpaceAfterWord
    \/ ReadSpace
    \/ ReadChar
    \/ EndLine
    \/ GenerateHeaderRow
    \/ GenerateDataRow
    \/ RejectArity
    \/ AcceptArity
    \/ ReplaceDecorationTabs
    \/ RejectFillChar
    \/ AcceptFillChar
    \/ RejectUnprintable
    \/ AcceptPrintable
    \/ GenerateCell
    \/ AlignCellsVertically
    \/ BuildRow
    \/ Leave
    \/ ColumnDefaultWidth
    \/ ColumnRejectWidth
    \/ ColumnAcceptWidth
    \/ ColumnRejectMaxDataLines
    \/ ColumnAcceptMaxDataLines
    \/ NewTableCreator

Spec == Init /\ [][Next]_vars


\* ================================================================ claims
\* Every line of a text, a trailing line break opening an (empty) last line.
RECURSIVE SplitAll(_, _)
SplitAll(s, cur) ==
    IF s = << >> THEN << cur >>
    ELSE IF Head(s) = NEWLINE THEN << cur >> \o SplitAll(Tail(s), << >>)
    ELSE SplitAll(Tail(s), Append(cur, Head(s)))

LinesOf(buf) == SplitAll(buf, << >>)
LastLineOf(buf) == LinesOf(buf)[Len(LinesOf(buf))]
OutLines == LinesOf(wrapped_buf)
Returned == pc = "return"

Has(s, c) == \E i \in 1..Len(s) : s[i] = c
Visible(s) == SelectSeq(s, LAMBDA c : c \in {"a", "b", WIDE})
NonBlank(s) == SelectSeq(s, LAMBDA c : c \notin {SPACE, NEWLINE})
Markers(s) == Len(SelectSeq(s, LAMBDA c : c = HORIZONTAL_ELLIPSIS))
EndsWithMarker(line) ==
    LET v == strip_style(line) IN v # << >> /\ v[Len(v)] = HORIZONTAL_ELLIPSIS

\* No character of the text is wider than a whole line (such a character is
\* replaced whatever the line budget, see C8).
NoCharTooWide == max_width >= 2 \/ ~Has(text, WIDE)

\* Visible characters of the text are missing from the output.
Omitted == Visible(wrapped_buf) # Visible(text)

\* C1: every line of the output of _wrap_text (of its buffer, at every point
\* of the call) has display width <= max_width, style sequences counting zero.
C1_LineWidthBound ==
    \A i \in 1..Len(OutLines) : style_aware_wcswidth(OutLines[i]) <= max_width

\* C1 witness: a returned output of several lines, one of them exactly
\* max_width wide and holding a style sequence.
C1_Witness ==
    /\ Returned /\ Len(OutLines) >= 2
    /\ \E i \in 1..Len(OutLines) :
          /\ style_aware_wcswidth(OutLines[i]) = max_width
          /\ Has(OutLines[i], STYLE)

\* C2: with a finite max_lines the output of _wrap_text (its buffer, at every
\* point of the call) has at most max_lines lines.
C2_LineCountBound ==
    max_lines # INFINITY => Len(OutLines) <= max_lines

\* C2 witness: a returned output that uses the whole budget of two lines and
\* leaves input out, the text holding a line break and a space.
C2_Witness ==
    /\ Returned /\ max_lines = 2 /\ Len(OutLines) = 2 /\ Omitted
    /\ Has(text, NEWLINE) /\ Has(text, SPACE)

\* C3: whenever the returned output leaves out visible input content, its last
\* line ends with exactly one truncation marker.
C3_OmissionIsMarked ==
    Returned /\ NoCharTooWide /\ Omitted
        => EndsWithMarker(LastLineOf(wrapped_buf)) /\ Markers(LastLineOf(wrapped_buf)) = 1

\* The text wrapped without a line budget, and whether that fits the budget.
Unbounded == wrap_text(text, max_width, INFINITY)
Fits == Len(LinesOf(Unbounded)) <= max_lines

\* C4: when the whole text fits in max_lines lines of max_width, the output
\* holds no truncation marker and every visible character of the text.
C4_ExactFitUntouched ==
    Returned /\ NoCharTooWide /\ Fits
        => Markers(wrapped_buf) = 0 /\ Visible(wrapped_buf) = Visible(text)

\* After the word of the add_word() call c: another word on the input line,
\* or another input line.
MoreFollows(c) ==
    \/ c.before.data_line_index < Len(c.before.data_str_lines) - 1
    \/ \E i \in (c.before.char_index + 1)..Len(data_line(c.before)) :
          ~IsStyle(data_line(c.before)[i]) /\ data_line(c.before)[i] # SPACE

\* The call c adds, on the final permitted line, a word that with its
\* separating space is exactly as wide as the room left there.
FillsFinalLine(c) ==
    LET w == style_aware_wcswidth(c.word)
        room == c.before.max_width - c.before.cur_line_width
    IN  /\ w > 0 /\ w <= c.before.max_width
        /\ c.before.total_lines = c.before.max_lines
        /\ w + (IF c.before.cur_line_width > 0 THEN 1 ELSE 0) = room

\* The call c wraps a word of single-width characters wider than a line whose
\* last segment is exactly as wide as the final permitted line.
SegmentFillsFinalLine(c) ==
    LET w == style_aware_wcswidth(c.word)
        lines1 == c.before.total_lines + (IF c.before.cur_line_width > 0 THEN 1 ELSE 0)
    IN  /\ w > c.before.max_width /\ ~Has(c.word, WIDE)
        /\ room_to_add(c.before)
        /\ c.before.max_lines # INFINITY
        /\ w = (c.before.max_lines - lines1 + 1) * c.before.max_width

\* C5: a word (or last segment of a long word) that exactly fills the final
\* permitted line while more words or lines follow has its last character
\* replaced by the marker: the line is max_width wide and ends with the marker.
C5_ExactFitButMoreFollows ==
    last_add.made /\ MoreFollows(last_add)
    /\ (FillsFinalLine(last_add) \/ SegmentFillsFinalLine(last_add))
        => /\ EndsWithMarker(LastLineOf(last_add.after.wrapped_buf))
           /\ style_aware_wcswidth(LastLineOf(last_add.after.wrapped_buf)) = max_width

\* What the add_word() call c wrote, and whether the line it wrote to held
\* visible text (held any character) before.
Added(c) == From(c.after.wrapped_buf, Len(c.before.wrapped_buf))
LineHeldVisible(c) == Visible(LastLineOf(c.before.wrapped_buf)) # << >>
LineHeldText(c) == strip_style(LastLineOf(c.before.wrapped_buf)) # << >>
IsLongWord(c) == style_aware_wcswidth(c.word) > c.before.max_width

\* C6 as claimed: a word wider than max_width is never appended to a line that
\* already holds visible content, for every max_lines.
C6_LongWordOwnLine_Original ==
    last_add.made /\ IsLongWord(last_add) /\ LineHeldVisible(last_add)
        => Added(last_add) # << >> /\ Head(Added(last_add)) = NEWLINE

\* C6 as amended: a word wider than max_width begins on a line of its own
\* whenever a line is left (total_lines < max_lines): a line break comes first
\* if the line held any text, and then the word's first character (or the
\* marker, when that line is the last and one column wide).  On the last
\* permitted line the word is appended, truncated, with no line break.
C6_LongWordOwnLine ==
    last_add.made /\ IsLongWord(last_add) =>
        LET c == last_add
            own == IF LineHeldText(c) THEN Tail(Added(c)) ELSE Added(c)
        IN  IF c.before.total_lines < c.before.max_lines
            THEN /\ LineHeldText(c) => Head(Added(c)) = NEWLINE
                 /\ own # << >>
                 /\ Head(own) \in {LongWordChar(Head(c.word), c.before.max_width),
                                  HORIZONTAL_ELLIPSIS}
            ELSE LineHeldText(c) => ~Has(Added(c), NEWLINE)

\* C6 witness: a long word has been added after visible text, with lines left,
\* and a line break was written first.
C6_Witness ==
    /\ last_add.made /\ IsLongWord(last_add) /\ LineHeldVisible(last_add)
    /\ last_add.before.total_lines < last_add.before.max_lines
    /\ last_add.before.max_lines # INFINITY
    /\ Head(Added(last_add)) = NEWLINE

\* The text is a single word of single-width characters and style sequences.
SoleNarrowWord == text # << >> /\ \A i \in 1..Len(text) : text[i] \in {"a", "b", STYLE}

\* C7: with unbounded max_lines a sole word of single-width characters of
\* width W > max_width comes out in ceil(W / max_width) lines, every line but
\* the last exactly max_width wide, the lines concatenated being the word.
C7_LongWordSplit ==
    Returned /\ max_lines = INFINITY /\ SoleNarrowWord
    /\ style_aware_wcswidth(text) > max_width
        => /\ Len(OutLines) * max_width >= style_aware_wcswidth(text)
           /\ (Len(OutLines) - 1) * max_width < style_aware_wcswidth(text)
           /\ \A i \in 1..(Len(OutLines) - 1) :
                 style_aware_wcswidth(OutLines[i]) = max_width
           /\ SelectSeq(wrapped_buf, LAMBDA c : c # NEWLINE) = text

\* C7 witness: such a word, holding a style sequence, split over three lines.
C7_Witness ==
    /\ Returned /\ max_lines = INFINITY /\ SoleNarrowWord /\ Has(text, STYLE)
    /\ style_aware_wcswidth(text) > max_width
    /\ Len(OutLines) = 3

\* The text with every wide character replaced by the truncation marker.
Marked(s) == [i \in 1..Len(s) |-> IF s[i] = WIDE THEN HORIZONTAL_ELLIPSIS ELSE s[i]]

\* C8: with max_width 1 no width-2 character reaches the output; with no line
\* budget each one is replaced in place by the marker; and a data value that is
\* one width-2 character renders, in a column of width 1, as exactly the marker.
C8_WideCharReplaced ==
    /\ Returned /\ max_width = 1 =>
          /\ ~Has(wrapped_buf, WIDE)
          /\ max_lines = INFINITY => NonBlank(wrapped_buf) = Marked(NonBlank(text))
          /\ text = << WIDE >> => wrapped_buf = << HORIZONTAL_ELLIPSIS >>
    /\ (/\ row_pc = "return" /\ ~args.is_header
        /\ Len(cols) = 1 /\ cols[1].width = 1 /\ args.data = << << WIDE >> >>
        /\ pre_line = << >> /\ post_line = << >>)
          => strip_style(row_buf) = << HORIZONTAL_ELLIPSIS >>

\* C8 witness: a text with a width-2 character and more, wrapped at width 1
\* with no line budget, the marker standing in the output.
C8_Witness ==
    /\ Returned /\ max_width = 1 /\ max_lines = INFINITY
    /\ Has(text, WIDE) /\ Has(text, "a") /\ Has(wrapped_buf, HORIZONTAL_ELLIPSIS)

\* C9: generate_data_row with a data list whose length differs from the number
\* of columns raises ValueError: whatever the decorations, the call goes from
\* the arity check straight out, no cell is generated and no row is written.
C9_ArityRejected ==
    args.made /\ ~args.is_header /\ Len(args.data) # Len(cols)
        => /\ row_pc \in {"arity", "raised"}
           /\ row_pc = "raised" => error = "ValueError"
           /\ cells = << >> /\ row_buf = << >>

\* C9 witness: a data row longer than the table, with an empty fill_char and a
\* newline in post_line besides, has been rejected with ValueError.
C9_Witness ==
    /\ row_pc = "raised" /\ error = "ValueError" /\ ~args.is_header
    /\ Len(args.data) > Len(cols)
    /\ args.fill_char = << >> /\ Has(args.post_line, NEWLINE)

\* The decorations of the render call once their tabs are replaced.
GivenFillChar == ReplaceTabs(args.fill_char, 1)
GivenLines ==
    {GivenFillChar, ReplaceTabs(args.pre_line, tab_width),
     ReplaceTabs(args.inter_cell, tab_width), ReplaceTabs(args.post_line, tab_width)}
BadDecoration ==
    \/ Len(strip_style(GivenFillChar)) # 1
    \/ \E val \in GivenLines : style_aware_wcswidth(val) = -1

\* C10: a render call whose fill_char is not one character once tabs and
\* styles are gone, or whose decorations hold an unprintable character, never
\* reaches the cells: no cell is generated, no row is written, and the call
\* ends with the exception of the first check that fails (ValueError for the
\* arity, then TypeError for fill_char, then ValueError for unprintable).
C10_DecorationRejected ==
    args.made /\ BadDecoration
        => /\ row_pc \in {"arity", "tabs", "fill", "printable", "raised"}
           /\ cells = << >> /\ row_buf = << >>
           /\ row_pc = "raised" =>
                 error = IF Len(args.data) # Len(cols) THEN "ValueError"
                         ELSE IF Len(strip_style(GivenFillChar)) # 1 THEN "TypeError"
                         ELSE "ValueError"

\* C10 witness: a header row with a proper fill_char and a newline in
\* post_line has been rejected with ValueError before any cell.
C10_Witness ==
    /\ row_pc = "raised" /\ error = "ValueError" /\ args.is_header
    /\ Len(strip_style(GivenFillChar)) = 1 /\ ~Has(GivenFillChar, NEWLINE)
    /\ Has(args.post_line, NEWLINE)
    /\ cells = << >>

\* ------------------------------------------------------------------ Column
BadWidthArg == column.width.given /\ column.width.value < 1
BadLimitArg == column.max_data_lines < 1
ColumnRaised == column.pc = "raised" /\ column.error = "ValueError"

\* C11: Column() with an explicit width < 1 or with max_data_lines < 1 raises
\* ValueError and returns no Column, so every Column returned, and every Column
\* of a table, has width >= 1 and max_data_lines >= 1, whatever the header.
C11_ColumnArgsChecked ==
    /\ column.pc # "none" =>
          /\ (BadWidthArg /\ column.pc # "width") => ColumnRaised
          /\ (BadLimitArg /\ column.pc \notin {"width", "max_data_lines"}) => ColumnRaised
          /\ column.pc = "return" =>
                 /\ column.self.width >= 1
                 /\ column.self.max_data_lines >= 1
    /\ \A i \in 1..Len(cols) : cols[i].width >= 1 /\ cols[i].max_data_lines >= 1

C11_Witness ==
    /\ column.pc = "raised" /\ column.error = "ValueError"
    /\ ~BadWidthArg /\ BadLimitArg
    /\ column.header # << >>

\* The display width of a printable line: style sequences count zero, a wide
\* character two, every other character one.
DisplayWidth(line) ==
    Len(SelectSeq(line, LAMBDA c : c \notin {STYLE, RESET_ALL}))
    + Len(SelectSeq(line, LAMBDA c : c = WIDE))

WidestHeaderLine(header) ==
    LET widths == {DisplayWidth(LinesOf(header)[i]) : i \in 1..Len(LinesOf(header))}
    IN  IF \E w \in widths : w > 0 THEN Max(widths) ELSE 1

\* C12: with no width given, Column.width is the largest display width among
\* the lines of the header (style sequences counting zero), or 1 when the
\* header is empty or none of its lines has a positive display width.
C12_DefaultWidth ==
    (column.pc \in {"max_data_lines", "return"} /\ ~column.width.given)
        => column.self.width = WidestHeaderLine(column.header)

C12_Witness ==
    /\ column.pc = "return" /\ ~column.width.given
    /\ Has(column.header, STYLE) /\ Has(column.header, NEWLINE)
    /\ column.self.width = 3

\* --------------------------------------------------------------- the row
\* The header of column i wrapped within the column with no limit of lines.
WholeHeader(i) ==
    LinesOf(wrap_text(ReplaceTabs(cols[i].header, tab_width), cols[i].width, INFINITY))

\* C13: header cells are never subject to max-lines truncation: whatever the
\* finite max_data_lines of the Column, a header cell holds every line of the
\* wrapped header, and no truncation marker is added.
C13_HeaderNotTruncated ==
    (args.made /\ args.is_header /\ row_pc = "cells") =>
        \A i \in 1..Len(cells) :
            /\ Len(cells[i].lines) = Len(WholeHeader(i))
            /\ \A k \in 1..Len(cells[i].lines) :
                   k <= Len(WholeHeader(i)) =>
                       /\ Visible(cells[i].lines[k]) = Visible(WholeHeader(i)[k])
                       /\ Markers(cells[i].lines[k]) = Markers(WholeHeader(i)[k])

\* The lines of cell i as _generate_cell_lines returned them, the height of
\* the tallest cell, and the lines cell i lacks.
CellBefore(i) ==
    generate_cell_lines(args.data[i], args.is_header, cols[i], fill_char, tab_width).lines
Tallest == Max({0} \cup {Len(CellBefore(i)) : i \in 1..Len(cols)})
Lacking(i) == Tallest - Len(CellBefore(i))

VertAlignOf(i) ==
    IF args.is_header THEN cols[i].header_vert_align ELSE cols[i].data_vert_align

PaddingAbove(i) ==
    IF VertAlignOf(i) = "TOP" THEN 0
    ELSE IF VertAlignOf(i) = "BOTTOM" THEN Lacking(i)
    ELSE Lacking(i) \div 2

OnlyFill(line) ==
    /\ strip_style(line) # << >>
    /\ \A k \in 1..Len(strip_style(line)) : strip_style(line)[k] = strip_style(fill_char)[1]

\* C14: a cell with d fewer lines than the tallest cell of its row receives
\* exactly d padding lines made only of the fill character: all after its
\* text for TOP, all before it for BOTTOM, floor(d/2) before and the rest
\* after for MIDDLE; a header row goes by header_vert_align, a data row by
\* data_vert_align.
C14_VerticalPadding ==
    row_pc = "build" =>
        \A i \in 1..Len(cells) :
            /\ Len(cells[i].lines) = Len(CellBefore(i)) + Lacking(i)
            /\ SubSeq(cells[i].lines, PaddingAbove(i) + 1,
                      PaddingAbove(i) + Len(CellBefore(i))) = CellBefore(i)
            /\ \A k \in 1..Len(cells[i].lines) :
                   (k <= PaddingAbove(i) \/ k > PaddingAbove(i) + Len(CellBefore(i)))
                       => OnlyFill(cells[i].lines[k])

C14_Witness ==
    /\ row_pc = "build" /\ Len(cells) = 2
    /\ \E i \in 1..Len(cells) :
           /\ VertAlignOf(i) = "MIDDLE" /\ Lacking(i) = 1
           /\ OnlyFill(cells[i].lines[Len(cells[i].lines)])
           /\ Has(fill_char, "-")

\* The row as a function of the table and of the arguments of the call alone.
Rendered(table_cols, tab, a) ==
    LET fill == ReplaceTabs(a.fill_char, 1)
        made == [i \in 1..Len(table_cols) |->
                    generate_cell_lines(a.data[i], a.is_header, table_cols[i], fill, tab)]
        aligned == [i \in 1..Len(table_cols) |->
                       VerticallyAligned(made[i], table_cols[i], a.is_header, fill,
                                         RowLines(made))]
    IN  RowFrom(aligned, Len(table_cols), RowLines(made), 0,
                ReplaceTabs(a.pre_line, tab), ReplaceTabs(a.inter_cell, tab),
                ReplaceTabs(a.post_line, tab))

InRenderCall == row_pc # "idle" \/ row_pc' # "idle"

\* C15: generate_header_row and generate_data_row change nothing that outlives
\* the call: the column list, every field of every Column, tab_width and the
\* data given by the caller are the same afterwards; and the string returned
\* is a function of the table and the arguments alone, so that after any
\* sequence of calls the same arguments give the same string.
C15_RenderChangesNothing ==
    /\ [][InRenderCall =>
            /\ cols' = cols
            /\ tab_width' = tab_width
            /\ (args.made /\ args'.made) => args' = args]_vars
    /\ [](row_pc = "return" => row_buf = Rendered(cols, tab_width, args))

C15_Witness ==
    /\ row_pc = "return" /\ ~args.is_header
    /\ Len(cols) = 2 /\ row_buf # << >>
    /\ fill_char # args.fill_char /\ pre_line # args.pre_line
    /\ Has(args.data[1], TAB)

\* The k-th lines of the cells from cell j on, inter_cell between neighbours.
RECURSIVE Joined(_, _)
Joined(k, j) ==
    IF j > Len(cells) THEN << >>
    ELSE cells[j].lines[k]
         \o (IF j < Len(cells) THEN inter_cell \o Joined(k, j + 1) ELSE << >>)

RECURSIVE SumOfWidths(_)
SumOfWidths(i) == IF i = 0 THEN 0 ELSE cols[i].width + SumOfWidths(i - 1)

RowWidth ==
    DisplayWidth(pre_line) + SumOfWidths(Len(cols))
    + (Len(cols) - 1) * DisplayWidth(inter_cell) + DisplayWidth(post_line)

PrintableData ==
    \A i \in 1..Len(args.data) :
        \A k \in 1..Len(args.data[i]) : args.data[i][k] \in TextChars \cup {TAB}

\* C17: every rendered row is rectangular: for printable data and a fill
\* character of width 1, every line of every cell, text and vertical padding
\* alike, is exactly as wide as its column, and every line of the row is as
\* wide as pre_line, the columns, the inter_cells between them and post_line
\* together.
C17_Rectangular ==
    (row_pc \in {"build", "return"} /\ PrintableData /\ DisplayWidth(fill_char) = 1) =>
        /\ \A i \in 1..Len(cells) :
               \A k \in 1..Len(cells[i].lines) :
                   DisplayWidth(cells[i].lines[k]) = cols[i].width
        /\ row_pc = "return" =>
               \A k \in 1..Len(LinesOf(row_buf)) :
                   DisplayWidth(LinesOf(row_buf)[k]) = RowWidth

C17_Witness ==
    /\ row_pc = "return" /\ Len(cols) = 2
    /\ Lacking(1) + Lacking(2) >= 2
    /\ Has(row_buf, HORIZONTAL_ELLIPSIS) /\ Has(row_buf, STYLE)
    /\ Has(fill_char, "-")
    /\ RowWidth >= 6

\* ------------------------------------------------------------ _wrap_text
\* The final permitted line is already full when add_word() is called.
FinalLineFull(f) == f.total_lines = f.max_lines /\ f.cur_line_width >= f.max_width

\* C18: for every printable text, max_width >= 1 and max_lines >= 1,
\* _wrap_text completes without raising: every call of utils.truncate_line is
\* given a width >= 1, for no word is added when the final permitted line is
\* already full.
C18_NeverRaises ==
    /\ pc # "raised" /\ ~raised
    /\ last_add.made =>
          /\ ~FinalLineFull(last_add.before)
          /\ ~last_add.after.raised
          /\ last_add.before.total_lines = last_add.before.max_lines
                 => last_add.before.max_width - last_add.before.cur_line_width >= 1

C18_Witness ==
    /\ pc = "return" /\ last_add.made
    /\ last_add.before.total_lines = last_add.before.max_lines
    /\ last_add.before.cur_line_width > 0
    /\ style_aware_wcswidth(last_add.word) + 1
           > last_add.before.max_width - last_add.before.cur_line_width
    /\ Has(wrapped_buf, HORIZONTAL_ELLIPSIS)

\* A single line without style sequences and without trailing spaces that is
\* no wider than max_width, wrapped with no limit of lines.
PlainLineThatFits ==
    /\ pc # "idle"
    /\ ~Has(text, NEWLINE) /\ ~Has(text, STYLE)
    /\ (text # << >> => text[Len(text)] # SPACE)
    /\ style_aware_wcswidth(text) <= max_width
    /\ max_lines = INFINITY

\* C19: a single-line text without style sequences and without trailing spaces
\* whose display width is <= max_width is returned unchanged when max_lines is
\* unbounded: no space is inserted or removed, leading spaces and runs of
\* spaces between words included, and no line break is added.
C19_FittingLineUnchanged ==
    (PlainLineThatFits /\ Returned) => wrapped_buf = text

====
